---- MODULE Spec2Model ----
(***************************************************************************)
(* CinemaPulse (src/app.py): the review store, the statistics aggregator   *)
(* (update_movie_stats, update_user_stats), the submission route and the   *)
(* recommendation engine, over the three DynamoDB tables.                  *)
(*                                                                         *)
(* Ratings averages are kept in hundredths (avg_rating 4.67 is 467).       *)
(* Timestamps (datetime.now().isoformat()) are values of a logical clock;  *)
(* the empty last_review_date '' is NoDate.                                *)
(***************************************************************************)
EXTENDS Integers, Sequences, FiniteSets, TLC

\* ------------------------------------------------------------------ bounds
MaxReviews == 2      \* reviews stored in one run of Spec
MaxReviewsSeq == 3   \* reviews stored in one run of SpecSeq
MaxReviewsRec == 2   \* reviews stored in one run of SpecRec
MaxLimit == 3        \* largest limit handed to get_recommendations
MaxBulk == 52        \* largest review table SpecBulk starts from
MaxReviewsRace == 2  \* reviews stored in one run of SpecRace
MaxReviewsView == 3  \* reviews stored in one run of SpecView
MaxReviewsReg == 1   \* reviews stored in one run of SpecReg

\* ------------------------------------------------------- program constants
DefaultLimit == 50   \* get_movie_reviews(movie_id, limit=50)
MinFeedbackLen == 10 \* len(feedback_text) < 10
MinRating == 1       \* 1 <= rating <= 5
MaxRating == 5
RecLimitAnalytics == 4
TopLimit == 6
FavoriteThreshold == 4   \* sum(ratings) / len(ratings) >= 4
NoDate == 0          \* last_review = ''

Procs == {"p1", "p2"}

Min(a, b) == IF a <= b THEN a ELSE b
Max(a, b) == IF a >= b THEN a ELSE b

\* --------------------------------------------------------- the seed catalog
MovieRec(id, g) ==
    [movie_id |-> id, genre |-> g, total_reviews |-> 0, avg_rating |-> 0, active |-> TRUE]

MOVIES_INITIAL_DATA ==
    << MovieRec("movie_001", "Sci-Fi"),
       MovieRec("movie_002", "Drama"),
       MovieRec("movie_003", "Action"),
       MovieRec("movie_004", "Drama"),
       MovieRec("movie_005", "Sci-Fi"),
       MovieRec("movie_006", "Thriller"),
       MovieRec("movie_007", "Action"),
       MovieRec("movie_008", "Adventure") >>

SeedIds == [i \in 1..Len(MOVIES_INITIAL_DATA) |-> MOVIES_INITIAL_DATA[i].movie_id]

\* ---------------------------------------------------------- pure helpers
RECURSIVE SumRatings(_)
SumRatings(s) == IF s = <<>> THEN 0 ELSE Head(s).rating + SumRatings(Tail(s))

\* s[:limit] of Python: a negative limit drops the last -limit elements.
PySlice(s, limit) ==
    LET k == IF limit >= 0 THEN Min(limit, Len(s)) ELSE Max(0, Len(s) + limit)
    IN  SubSeq(s, 1, k)

\* round(total / n, 2), in hundredths. Python rounds the float to the nearest
\* hundredth; an exact tie (n a multiple of 8) goes to the even neighbour.
Round2(total, n) ==
    LET q == (100 * total) \div n
        r == (100 * total) % n
    IN  IF 2 * r < n THEN q
        ELSE IF 2 * r > n THEN q + 1
        ELSE IF q % 2 = 0 THEN q ELSE q + 1

\* reviews.sort(key=created_at, reverse=True) of a scan's items.
RECURSIVE SortByCreatedDesc(_)
SortByCreatedDesc(S) ==
    IF S = {} THEN <<>>
    ELSE LET r == CHOOSE x \in S : \A y \in S : y.created_at <= x.created_at
         IN  <<r>> \o SortByCreatedDesc(S \ {r})

RemoveAt(s, i) == SubSeq(s, 1, i - 1) \o SubSeq(s, i + 1, Len(s))

\* sorted(ms, key=avg_rating, reverse=True): stable, so of equal keys the one
\* first in ms comes first.
RECURSIVE SortByAvgDesc(_)
SortByAvgDesc(ms) ==
    IF ms = <<>> THEN <<>>
    ELSE LET i == CHOOSE k \in 1..Len(ms) :
                    /\ \A j \in 1..Len(ms) : ms[j].avg_rating <= ms[k].avg_rating
                    /\ \A j \in 1..(k - 1) : ms[j].avg_rating < ms[k].avg_rating
         IN  <<ms[i]>> \o SortByAvgDesc(RemoveAt(ms, i))

\* Fault seeding: the analytics list ordered by avg_rating alone.
SortByScoreDescAvgOnly(ms) == SortByAvgDesc(ms)

\* sorted(ms, key=avg_rating * total_reviews or 0, reverse=True): stable.
Score(m) == m.avg_rating * m.total_reviews
RECURSIVE SortByScoreDesc(_)
SortByScoreDesc(ms) ==
    IF ms = <<>> THEN <<>>
    ELSE LET i == CHOOSE k \in 1..Len(ms) :
                    /\ \A j \in 1..Len(ms) : Score(ms[j]) <= Score(ms[k])
                    /\ \A j \in 1..(k - 1) : Score(ms[j]) < Score(ms[k])
         IN  <<ms[i]>> \o SortByScoreDesc(RemoveAt(ms, i))

SeqToSet(s) == {s[i] : i \in 1..Len(s)}

\* ------------------------------------------------------------------- state
VARIABLES
    aws,        \* AWS_AVAILABLE (and with it the three table objects)
    movies,     \* the movies table: movie_id -> item
    users,      \* the users table: email -> item
    reviews,    \* the reviews table: a set of items, keyed by review_id
    clock,      \* the last timestamp / review id handed out
    session,    \* per client: session['user_email'], or NoUser
    pc,         \* per client: where its current request stands
    loc,        \* per client: the request's locals and its response
    recs        \* the last get_recommendations call and what it returned

vars == <<aws, movies, users, reviews, clock, session, pc, loc, recs>>

NoUser == "none"
NoRecs == [email |-> NoUser, limit |-> 0, mOk |-> TRUE, rOk |-> TRUE, eOk |-> TRUE,
           favs |-> {}, primary |-> <<>>, result |-> <<>>,
           view |-> "none", aOk |-> TRUE, top_movies |-> <<>>]

NoForm == [movie_id |-> "", feedback |-> [lead |-> 0, core |-> 0, trail |-> 0],
           rating_raw |-> ""]
Idle == [op |-> "none", form |-> NoForm, email |-> NoUser, name |-> "", password |-> "",
         movie_id |-> "", rating |-> 0, feedback |-> 0,
         review_id |-> 0, calls |-> <<>>, put_ok |-> FALSE, ms_ok |-> FALSE,
         us_ok |-> FALSE, tr |-> 0, ar |-> 0, lr |-> NoDate,
         pre_m |-> <<0, 0>>, pre_u |-> <<0, 0>>, notified |-> FALSE, ret |-> "none"]

\* ------------------------------------------------------------ input tables
\* email.strip().lower() on the raw addresses the model submits.
Lower(raw) ==
    CASE raw = "A@x.io" -> "a@x.io"
      [] OTHER -> raw

\* re.match(r'^[a-zA-Z0-9._%+-]+@[a-zA-Z0-9.-]+\.[a-zA-Z]{2,}$', email)
is_valid_email(email) == email \in {"a@x.io", "b@x.io", "A@x.io"}

\* generate_password_hash / check_password_hash
hash_password(password) == <<"pbkdf2", password>>
verify_password(stored_hash, password) == stored_hash = <<"pbkdf2", password>>

\* len(s) of the passwords and names the model submits.
StrLen(s) ==
    CASE s = "" -> 0
      [] s = "A" -> 1
      [] s = "Ann" -> 3
      [] s = "Bob" -> 3
      [] s = "short" -> 5
      [] s = "secret1" -> 7
      [] s = "secret2" -> 7

\* int(rating_raw): <<TRUE, n>>, or <<FALSE, 0>> for the ValueError of a text
\* that is no integer literal.
int(raw) ==
    CASE raw = "0" -> <<TRUE, 0>>
      [] raw = "1" -> <<TRUE, 1>>
      [] raw = "2" -> <<TRUE, 2>>
      [] raw = "3" -> <<TRUE, 3>>
      [] raw = "4" -> <<TRUE, 4>>
      [] raw = "5" -> <<TRUE, 5>>
      [] raw = "6" -> <<TRUE, 6>>
      [] raw = "-1" -> <<TRUE, -1>>
      [] OTHER -> <<FALSE, 0>>

\* A feedback text is its leading blanks, its core and its trailing blanks;
\* strip() keeps the core.
strip_len(text) == text.core

\* ------------------------------------------------------------ table access
\* get_all_movies(): the active items in scan order; [] when the scan fails;
\* the seed list when the table object is missing.
get_all_movies(ok) ==
    IF ~aws THEN MOVIES_INITIAL_DATA
    ELSE IF ~ok THEN <<>>
    ELSE LET ids == SelectSeq(SeedIds, LAMBDA id : id \in DOMAIN movies /\ movies[id].active)
         IN  [i \in 1..Len(ids) |-> movies[ids[i]]]

NoItem == [movie_id |-> ""]

\* get_movie_by_id(movie_id): the item, or None (NoItem)
get_movie_by_id(movie_id, ok) ==
    IF ~aws
    THEN IF \E i \in 1..Len(MOVIES_INITIAL_DATA) : MOVIES_INITIAL_DATA[i].movie_id = movie_id
         THEN MOVIES_INITIAL_DATA[CHOOSE i \in 1..Len(MOVIES_INITIAL_DATA) :
                                      MOVIES_INITIAL_DATA[i].movie_id = movie_id]
         ELSE NoItem
    ELSE IF ok /\ movie_id \in DOMAIN movies THEN movies[movie_id] ELSE NoItem

\* get_movie_reviews(movie_id, limit=50)
get_movie_reviews(movie_id, limit, ok) ==
    IF ~aws \/ ~ok THEN <<>>
    ELSE PySlice(SortByCreatedDesc({r \in reviews : r.movie_id = movie_id}), limit)

\* The enrichment loop of get_user_reviews: the genre of the first catalog
\* entry with the review's movie_id; a review left without movie_genre reads
\* as 'Unknown' in get_recommendations (review.get('movie_genre', 'Unknown')).
GenreOf(movie_id, catalog) ==
    IF \E i \in 1..Len(catalog) : catalog[i].movie_id = movie_id
    THEN catalog[CHOOSE i \in 1..Len(catalog) :
                    /\ catalog[i].movie_id = movie_id
                    /\ \A j \in 1..(i - 1) : catalog[j].movie_id # movie_id].genre
    ELSE "Unknown"

\* get_user_reviews(email): the user's reviews, newest first, each with the
\* genre of its movie. rOk: the review scan; eOk: the scan of get_all_movies.
get_user_reviews(email, rOk, eOk) ==
    IF ~aws \/ ~rOk THEN <<>>
    ELSE LET rs == SortByCreatedDesc({r \in reviews : r.user_email = email})
             catalog == get_all_movies(eOk)
         IN  [i \in 1..Len(rs) |->
                 [movie_id |-> rs[i].movie_id, rating |-> rs[i].rating,
                  created_at |-> rs[i].created_at,
                  movie_genre |-> GenreOf(rs[i].movie_id, catalog)]]

\* ------------------------------------------------------ statistics aggregator
\* update_movie_stats, up to its update_item: (total_reviews, round(avg, 2)).
MovieStats(movie_id, ok) ==
    LET rs == get_movie_reviews(movie_id, DefaultLimit, ok)
        total_reviews == Len(rs)
    IN  <<total_reviews,
          IF total_reviews > 0 THEN Round2(SumRatings(rs), total_reviews) ELSE 0>>

RECURSIVE MaxCreated(_)
MaxCreated(rs) ==
    IF rs = <<>> THEN NoDate ELSE Max(Head(rs).created_at, MaxCreated(Tail(rs)))

\* Fault seeding: last_review taken from the oldest review.
UserStatsOldest(email, ok) ==
    LET rs == get_user_reviews(email, ok, TRUE)
        total_reviews == Len(rs)
    IN  IF total_reviews > 0
        THEN <<total_reviews, Round2(SumRatings(rs), total_reviews),
               rs[total_reviews].created_at>>
        ELSE <<0, 0, NoDate>>

\* update_user_stats, up to its update_item: (total_reviews, round(avg, 2),
\* last_review).
UserStats(email, ok) ==
    LET rs == get_user_reviews(email, ok, TRUE)
        total_reviews == Len(rs)
    IN  IF total_reviews > 0
        THEN <<total_reviews, Round2(SumRatings(rs), total_reviews), MaxCreated(rs)>>
        ELSE <<0, 0, NoDate>>

\* Fault seeding: an update that never lowers total_reviews.
UpdateMovieItemMonotone(tbl, movie_id, tr, ar) ==
    IF movie_id \in DOMAIN tbl
    THEN IF tr >= tbl[movie_id].total_reviews
         THEN [tbl EXCEPT ![movie_id].total_reviews = tr, ![movie_id].avg_rating = ar]
         ELSE tbl
    ELSE tbl @@ (movie_id :> [movie_id |-> movie_id, genre |-> "Unknown",
                              total_reviews |-> tr, avg_rating |-> ar, active |-> FALSE])

\* update_item(Key={'movie_id': ...}, SET total_reviews, avg_rating, last_updated):
\* DynamoDB creates the item when the key is new.
UpdateMovieItem(tbl, movie_id, tr, ar) ==
    IF movie_id \in DOMAIN tbl
    THEN [tbl EXCEPT ![movie_id].total_reviews = tr, ![movie_id].avg_rating = ar]
    ELSE tbl @@ (movie_id :> [movie_id |-> movie_id, genre |-> "Unknown",
                              total_reviews |-> tr, avg_rating |-> ar, active |-> FALSE])

\* update_item(Key={'email': ...}, SET total_reviews, avg_rating, last_review_date)
UpdateUserItem(tbl, email, tr, ar, lr) ==
    IF email \in DOMAIN tbl
    THEN [tbl EXCEPT ![email].total_reviews = tr, ![email].avg_rating = ar,
                     ![email].last_review_date = lr]
    ELSE tbl @@ (email :> [email |-> email, name |-> "", password_hash |-> <<>>,
                           total_reviews |-> tr, avg_rating |-> ar,
                           last_review_date |-> lr, is_active |-> TRUE])

\* ------------------------------------------------------ recommendation engine
\* sum(ratings) / len(ratings) >= 4 for the user's ratings in genre g (the float
\* quotient of two small integers is >= 4 exactly when sum >= 4 * len).
\* Fault seeding: the threshold taken as a strict bound.
IsFavoriteStrict(user_reviews, g) ==
    LET rs == SelectSeq(user_reviews, LAMBDA r : r.movie_genre = g)
    IN  Len(rs) > 0 /\ SumRatings(rs) > FavoriteThreshold * Len(rs)

IsFavorite(user_reviews, g) ==
    LET rs == SelectSeq(user_reviews, LAMBDA r : r.movie_genre = g)
    IN  Len(rs) > 0 /\ SumRatings(rs) >= FavoriteThreshold * Len(rs)

favorite_genres(user_reviews) ==
    {g \in {user_reviews[i].movie_genre : i \in 1..Len(user_reviews)} :
        IsFavorite(user_reviews, g)}

\* Fault seeding: only the newest review counted as seen.
rated_movie_ids_latest(user_reviews) == {user_reviews[1].movie_id}

rated_movie_ids(user_reviews) ==
    {user_reviews[i].movie_id : i \in 1..Len(user_reviews)}

\* Fault seeding: the cold-start list left in scan order.
ColdStartUnsorted(all_movies, limit) == PySlice(all_movies, limit)

\* The cold-start branch: sorted(all_movies, key=avg_rating, reverse=True)[:limit]
ColdStart(all_movies, limit) == PySlice(SortByAvgDesc(all_movies), limit)

\* Fault seeding: the fill left in scan order.
FillUnsorted(all_movies, rated, recommendations, limit) ==
    IF Len(recommendations) < limit
    THEN LET other_movies ==
                 SelectSeq(all_movies, LAMBDA m :
                     /\ m.movie_id \notin rated
                     /\ m \notin SeqToSet(recommendations))
         IN  recommendations \o PySlice(other_movies, limit - Len(recommendations))
    ELSE recommendations

\* The fill: other_movies[:limit - len(recommendations)] appended when the
\* favorite-genre candidates are fewer than limit.
Fill(all_movies, rated, recommendations, limit) ==
    IF Len(recommendations) < limit
    THEN LET other_movies ==
                 SortByAvgDesc(SelectSeq(all_movies, LAMBDA m :
                     /\ m.movie_id \notin rated
                     /\ m \notin SeqToSet(recommendations)))
         IN  recommendations \o PySlice(other_movies, limit - Len(recommendations))
    ELSE recommendations

\* The favorite-genre candidates: recommendations before the fill.
PrimaryCandidates(all_movies, rated, favs) ==
    SortByAvgDesc(SelectSeq(all_movies, LAMBDA m :
        m.movie_id \notin rated /\ m.genre \in favs))

\* get_recommendations(email, limit) with its locals: the favorite genres, the
\* favorite-genre candidates and the list it returns (the cold-start branch
\* computes no favorites).
Recommendations(email, limit, mOk, rOk, eOk) ==
    LET all_movies == get_all_movies(mOk)
        user_reviews == get_user_reviews(email, rOk, eOk)
    IN  IF user_reviews = <<>>
        THEN [favs |-> {}, primary |-> <<>>, result |-> ColdStart(all_movies, limit)]
        ELSE LET rated == rated_movie_ids(user_reviews)
                 favs == favorite_genres(user_reviews)
                 recommendations == PrimaryCandidates(all_movies, rated, favs)
             IN  [favs |-> favs, primary |-> recommendations,
                  result |-> PySlice(Fill(all_movies, rated, recommendations, limit),
                                     limit)]

get_recommendations(email, limit, mOk, rOk, eOk) ==
    Recommendations(email, limit, mOk, rOk, eOk).result

\* ------------------------------------------------------------------ inputs
Emails == {"a@x.io", "b@x.io"}
RawEmails == {"A@x.io", "bad"}
Passwords == {"secret1", "short"}
Names == {"Ann", "A"}
Text(l, c, t) == [lead |-> l, core |-> c, trail |-> t]
Form(m, f, r) == [movie_id |-> m, feedback |-> f, rating_raw |-> r]
GoodText == Text(1, MinFeedbackLen, 1)
\* Forms the route accepts, and forms with one defect each.
GoodForms(ids, ratings) == {Form(m, GoodText, r) : m \in ids, r \in ratings}
BadForms ==
    {Form("", GoodText, "4"), Form("movie_999", GoodText, "4"),
     Form("movie_001", Text(3, 0, 0), "4"),
     Form("movie_001", Text(2, MinFeedbackLen - 1, 2), "4"),
     Form("movie_001", GoodText, ""), Form("movie_001", GoodText, "0"),
     Form("movie_001", GoodText, "6"), Form("movie_001", GoodText, "abc")}
Forms == GoodForms({"movie_001", "movie_003"}, {"4", "5"}) \cup BadForms
FormsOk == GoodForms({"movie_001", "movie_003"}, {"2", "4", "5"})
Limits == (-1)..MaxLimit

\* -------------------------------------------------------------------- Init
\* Module load: the connection test sets AWS_AVAILABLE, and initialize_movies
\* seeds the movies table of a fresh store.
SeedTable(tbl, k) ==
    [id \in DOMAIN tbl \cup {SeedIds[i] : i \in 1..k} |->
        IF \E i \in 1..k : SeedIds[i] = id
        THEN MOVIES_INITIAL_DATA[CHOOSE i \in 1..k : SeedIds[i] = id]
        ELSE tbl[id]]

EmptyTable == [x \in {} |-> x]

Init ==
    /\ aws \in BOOLEAN
    /\ movies = IF aws THEN SeedTable(EmptyTable, Len(MOVIES_INITIAL_DATA)) ELSE EmptyTable
    /\ users = EmptyTable
    /\ reviews = {}
    /\ clock = 0
    /\ session = [p \in Procs |-> NoUser]
    /\ pc = [p \in Procs |-> "idle"]
    /\ loc = [p \in Procs |-> Idle]
    /\ recs = NoRecs

\* ------------------------------------------------------------ registration
\* register_user, up to the existence scan: the message it fails with, or "ok".
RegisterVerdict(email, password, name, scanOk) ==
    IF ~aws THEN "AWS service unavailable"
    ELSE IF ~is_valid_email(email) THEN "Invalid email format"
    ELSE IF StrLen(password) < 6 THEN "Password must be at least 6 characters"
    ELSE IF StrLen(name) < 2 THEN "Name must be at least 2 characters"
    ELSE IF scanOk /\ email \in DOMAIN users THEN "User already exists"
    ELSE "ok"

\* register() and register_user through the scan.
RegisterScan(p, raw, password, name, scanOk) ==
    /\ pc[p] = "idle"
    /\ LET email == Lower(raw)
           verdict == RegisterVerdict(email, password, name, scanOk)
       IN  /\ loc' = [loc EXCEPT ![p] =
                        IF verdict = "ok"
                        THEN [Idle EXCEPT !.op = "register", !.email = email,
                                          !.name = name, !.password = password]
                        ELSE [Idle EXCEPT !.op = "register", !.ret = verdict]]
           /\ pc' = [pc EXCEPT ![p] = IF verdict = "ok" THEN "reg_put" ELSE "idle"]
    /\ recs' = NoRecs
    /\ UNCHANGED <<aws, movies, users, reviews, clock, session>>

\* register_user from put_item on.
RegisterPut(p, putOk) ==
    /\ pc[p] = "reg_put"
    /\ LET l == loc[p]
           new_user == [email |-> l.email, name |-> l.name,
                        password_hash |-> hash_password(l.password),
                        total_reviews |-> 0, avg_rating |-> 0,
                        last_review_date |-> NoDate, is_active |-> TRUE]
       IN  /\ users' = IF putOk
                       THEN [e \in DOMAIN users \cup {l.email} |->
                                IF e = l.email THEN new_user ELSE users[e]]
                       ELSE users
           /\ loc' = [loc EXCEPT ![p].ret =
                        IF putOk THEN "Registration successful"
                        ELSE "Failed to save user. Check AWS tables.",
                                 ![p].put_ok = putOk, ![p].notified = putOk]
    /\ pc' = [pc EXCEPT ![p] = "idle"]
    /\ UNCHANGED <<aws, movies, reviews, clock, session, recs>>

\* login() and login_user.
Login(p, raw, password, scanOk) ==
    /\ pc[p] = "idle"
    /\ LET email == Lower(raw)
           success == /\ aws /\ scanOk
                      /\ email \in DOMAIN users
                      /\ verify_password(users[email].password_hash, password)
                      /\ users[email].is_active
       IN  /\ session' = [session EXCEPT ![p] = IF success THEN email ELSE @]
           /\ loc' = [loc EXCEPT ![p] = Idle]
    /\ recs' = NoRecs
    /\ UNCHANGED <<aws, movies, users, reviews, clock, pc>>

\* logout()
Logout(p) ==
    /\ pc[p] = "idle"
    /\ session[p] # NoUser
    /\ session' = [session EXCEPT ![p] = NoUser]
    /\ loc' = [loc EXCEPT ![p] = Idle]
    /\ recs' = NoRecs
    /\ UNCHANGED <<aws, movies, users, reviews, clock, pc>>

\* ------------------------------------------------------- review submission
\* Fault seeding: the route without its range check.
RouteVerdictNoRange(email, form, getOk) ==
    IF email = NoUser THEN "Please login to submit feedback!"
    ELSE IF form.movie_id = "" \/ strip_len(form.feedback) = 0 \/ form.rating_raw = ""
         THEN "All fields are required!"
    ELSE IF ~int(form.rating_raw)[1] THEN "An error occurred. Please try again."
    ELSE IF strip_len(form.feedback) < MinFeedbackLen
         THEN "Feedback must be at least 10 characters!"
    ELSE IF get_movie_by_id(form.movie_id, getOk) = NoItem THEN "Invalid movie!"
    ELSE "ok"

\* submit_feedback_route, up to its call of submit_review: the reason it turns
\* the form down, or "ok". getOk: the get_item of get_movie_by_id.
RouteVerdict(email, form, getOk) ==
    IF email = NoUser THEN "Please login to submit feedback!"
    ELSE IF form.movie_id = "" \/ strip_len(form.feedback) = 0 \/ form.rating_raw = ""
         THEN "All fields are required!"
    ELSE IF ~int(form.rating_raw)[1] THEN "An error occurred. Please try again."
    ELSE IF ~(MinRating <= int(form.rating_raw)[2] /\ int(form.rating_raw)[2] <= MaxRating)
         THEN "Rating must be between 1 and 5!"
    ELSE IF strip_len(form.feedback) < MinFeedbackLen
         THEN "Feedback must be at least 10 characters!"
    ELSE IF get_movie_by_id(form.movie_id, getOk) = NoItem THEN "Invalid movie!"
    ELSE "ok"

StatsOfMovie(movie_id) ==
    IF movie_id \in DOMAIN movies
    THEN <<movies[movie_id].total_reviews, movies[movie_id].avg_rating>>
    ELSE <<0, 0>>

StatsOfUser(email) ==
    IF email \in DOMAIN users
    THEN <<users[email].total_reviews, users[email].avg_rating>>
    ELSE <<0, 0>>

\* Fault seeding: the reviews table keyed by user and movie, so that a second
\* review of the same movie by the same user replaces the first.
put_review_per_user_movie(table, item) ==
    {r \in table : ~(r.user_email = item.user_email /\ r.movie_id = item.movie_id)}
        \cup {item}

\* table.put_item(Item=new_review) on the reviews table, whose key is
\* review_id: an item of the same key is replaced, any other is kept.
put_review(table, item) ==
    {r \in table : r.review_id # item.review_id} \cup {item}

\* Fault seeding: the recomputes run whatever the put of the review returned.
AfterPutAlways(success) == "ms_scan"

\* Where submit_review goes after safe_dynamodb_put_item.
AfterPut(success) == IF success THEN "ms_scan" ELSE "idle"

\* submit_feedback_route and submit_review through the put_item of the review.
SubmitFeedback(p, form, getOk, putOk, cap) ==
    /\ pc[p] = "idle"
    /\ LET email == session[p]
           verdict == RouteVerdict(email, form, getOk)
           calls_put == verdict = "ok" /\ aws
           stored == calls_put /\ putOk
           timestamp == clock + 1
           new_review == [review_id |-> timestamp, user_email |-> email,
                          movie_id |-> form.movie_id,
                          rating |-> int(form.rating_raw)[2],
                          feedback |-> strip_len(form.feedback),
                          created_at |-> timestamp]
           request == [Idle EXCEPT !.op = "submit", !.form = form]
       IN  /\ calls_put => Cardinality(reviews) < cap
           /\ reviews' = IF stored THEN put_review(reviews, new_review) ELSE reviews
           /\ clock' = IF stored THEN timestamp ELSE clock
           /\ pc' = [pc EXCEPT ![p] = IF calls_put THEN AfterPut(putOk) ELSE "idle"]
           /\ loc' = [loc EXCEPT ![p] =
                 IF verdict # "ok" THEN [request EXCEPT !.ret = verdict]
                 ELSE IF ~calls_put THEN [request EXCEPT !.ret = "failure"]
                 ELSE [request EXCEPT
                          !.email = email, !.movie_id = form.movie_id,
                          !.rating = new_review.rating, !.feedback = new_review.feedback,
                          !.review_id = timestamp,
                          !.calls = <<"put_item">>, !.put_ok = putOk,
                          !.pre_m = StatsOfMovie(form.movie_id),
                          !.pre_u = StatsOfUser(email),
                          !.ret = IF putOk THEN "none" ELSE "failure"]]
    /\ recs' = NoRecs
    /\ UNCHANGED <<aws, movies, users, session>>

\* update_movie_stats(movie_id): the scan of get_movie_reviews and the average.
MsScan(p, scanOk) ==
    /\ pc[p] = "ms_scan"
    /\ LET st == MovieStats(loc[p].movie_id, scanOk)
       IN  loc' = [loc EXCEPT ![p].tr = st[1], ![p].ar = st[2],
                              ![p].calls = Append(@, "update_movie_stats")]
    /\ pc' = [pc EXCEPT ![p] = "ms_update"]
    /\ UNCHANGED <<aws, movies, users, reviews, clock, session, recs>>

\* Fault seeding: update_user_stats skipped when update_movie_stats failed.
AfterMovieStatsStop(ok) == IF ok THEN "us_scan" ELSE "notify"

\* Where submit_review goes after update_movie_stats returned.
AfterMovieStats(ok) == "us_scan"

\* update_movie_stats(movie_id): its safe_dynamodb_update_item.
MsUpdate(p, updOk) ==
    /\ pc[p] = "ms_update"
    /\ movies' = IF updOk
                 THEN UpdateMovieItem(movies, loc[p].movie_id, loc[p].tr, loc[p].ar)
                 ELSE movies
    /\ loc' = [loc EXCEPT ![p].ms_ok = updOk, ![p].tr = 0, ![p].ar = 0]
    /\ pc' = [pc EXCEPT ![p] = AfterMovieStats(updOk)]
    /\ UNCHANGED <<aws, users, reviews, clock, session, recs>>

\* update_user_stats(email): the scans of get_user_reviews and the average.
UsScan(p, scanOk) ==
    /\ pc[p] = "us_scan"
    /\ LET st == UserStats(loc[p].email, scanOk)
       IN  loc' = [loc EXCEPT ![p].tr = st[1], ![p].ar = st[2], ![p].lr = st[3],
                              ![p].calls = Append(@, "update_user_stats")]
    /\ pc' = [pc EXCEPT ![p] = "us_update"]
    /\ UNCHANGED <<aws, movies, users, reviews, clock, session, recs>>

\* update_user_stats(email): its safe_dynamodb_update_item.
UsUpdate(p, updOk) ==
    /\ pc[p] = "us_update"
    /\ users' = IF updOk
                THEN UpdateUserItem(users, loc[p].email, loc[p].tr, loc[p].ar, loc[p].lr)
                ELSE users
    /\ loc' = [loc EXCEPT ![p].us_ok = updOk, ![p].tr = 0, ![p].ar = 0, ![p].lr = NoDate]
    /\ pc' = [pc EXCEPT ![p] = "notify"]
    /\ UNCHANGED <<aws, movies, reviews, clock, session, recs>>

\* What submit_review returns once the review is stored.
SubmitResult(ms_ok, us_ok) == "success"

\* movie_title = get_movie_by_id(movie_id).get('title', 'Unknown')
\*                   if get_movie_by_id(movie_id) else 'Unknown':
\* the condition is one get_item, the value a second one; None.get raises
\* when the second returns no item after the first returned one.
movie_title(movie_id, ok1, ok2) ==
    IF get_movie_by_id(movie_id, ok1) = NoItem THEN "Unknown"
    ELSE IF get_movie_by_id(movie_id, ok2) = NoItem THEN "AttributeError"
    ELSE "title"

\* submit_review: the title lookup, the notification and the return; an
\* exception of the lookup ends in the except branch, which returns False.
Notify(p, ok1, ok2, sent) ==
    /\ pc[p] = "notify"
    /\ loc' = IF movie_title(loc[p].movie_id, ok1, ok2) = "AttributeError"
              THEN [loc EXCEPT ![p].calls = Append(@, "AttributeError"),
                               ![p].ret = "failure"]
              ELSE [loc EXCEPT ![p].notified = sent,
                               ![p].calls = Append(@, "send_sns_notification"),
                               ![p].ret = SubmitResult(loc[p].ms_ok, loc[p].us_ok)]
    /\ pc' = [pc EXCEPT ![p] = "idle"]
    /\ UNCHANGED <<aws, movies, users, reviews, clock, session, recs>>

\* ------------------------------------------------------------------ restart
\* The process starts again on the same store: the connection test, then
\* initialize_movies, whose put_item calls stop at the first that raises
\* (k of the items are written). The session cookies outlive the process
\* when SECRET_KEY is set.
initialize_movies(k) == SeedTable(movies, k)

Restart(up, k, keep) ==
    /\ \A p \in Procs : pc[p] = "idle"
    /\ aws' = up
    /\ movies' = IF up THEN initialize_movies(k) ELSE movies
    /\ session' = IF keep THEN session ELSE [p \in Procs |-> NoUser]
    /\ loc' = [p \in Procs |-> Idle]
    /\ recs' = NoRecs
    /\ UNCHANGED <<users, reviews, clock, pc>>

\* ---------------------------------------------------------- recommendations
\* get_recommendations(email, limit) under the outcomes of its three scans;
\* recs holds the call and its result until the next request.
Recommend(email, limit, mOk, rOk, eOk) ==
    /\ \A p \in Procs : pc[p] = "idle"
    /\ recs = NoRecs
    /\ LET r == Recommendations(email, limit, mOk, rOk, eOk)
       IN  recs' = [NoRecs EXCEPT
                    !.email = email, !.limit = limit, !.mOk = mOk, !.rOk = rOk,
                    !.eOk = eOk, !.favs = r.favs, !.primary = r.primary,
                    !.result = get_recommendations(email, limit, mOk, rOk, eOk)]
    /\ UNCHANGED <<aws, movies, users, reviews, clock, session, pc, loc>>

\* analytics(): for a logged-in user, get_recommendations(email, limit=4) and
\* top_movies = sorted(get_all_movies(), key=score, reverse=True)[:6]; the
\* view changes nothing in the store. aOk: the scan of its own get_all_movies.
top_movies(aOk) == PySlice(SortByScoreDesc(get_all_movies(aOk)), TopLimit)

Analytics(p, mOk, rOk, eOk, aOk) ==
    /\ \A q \in Procs : pc[q] = "idle"
    /\ session[p] # NoUser
    /\ recs = NoRecs
    /\ LET r == Recommendations(session[p], RecLimitAnalytics, mOk, rOk, eOk)
       IN  recs' = [NoRecs EXCEPT
                    !.email = session[p], !.limit = RecLimitAnalytics, !.mOk = mOk,
                    !.rOk = rOk, !.eOk = eOk, !.favs = r.favs, !.primary = r.primary,
                    !.result = r.result,
                    !.view = "analytics", !.aOk = aOk, !.top_movies = top_movies(aOk)]
    /\ UNCHANGED <<aws, movies, users, reviews, clock, session, pc, loc>>

\* ----------------------------------------------------------- specifications
\* initialize_movies stops before the first item, after it, or runs through.
SeedStops == {0, 1, Len(MOVIES_INITIAL_DATA)}
Outcomes == {<<TRUE, TRUE>>, <<FALSE, TRUE>>, <<TRUE, FALSE>>}

\* One client; every storage call may fail; the process may restart.
Next ==
    \/ \E raw \in RawEmails, pw \in Passwords, nm \in Names, ok \in BOOLEAN :
           RegisterScan("p1", raw, pw, nm, ok)
    \/ \E ok \in BOOLEAN : RegisterPut("p1", ok)
    \/ \E raw \in RawEmails, pw \in Passwords, ok \in BOOLEAN : Login("p1", raw, pw, ok)
    \/ Logout("p1")
    \/ \E form \in Forms, o \in Outcomes : SubmitFeedback("p1", form, o[1], o[2], MaxReviews)
    \/ \E ok \in BOOLEAN : MsScan("p1", ok)
    \/ \E ok \in BOOLEAN : MsUpdate("p1", ok)
    \/ \E ok \in BOOLEAN : UsScan("p1", ok)
    \/ \E ok \in BOOLEAN : UsUpdate("p1", ok)
    \/ \E o \in Outcomes, sent \in BOOLEAN : Notify("p1", o[1], o[2], sent)
    \/ \E up \in BOOLEAN, k \in SeedStops, keep \in BOOLEAN : Restart(up, k, keep)

Spec == Init /\ [][Next]_vars

\* One client, one request at a time, every storage call succeeding.
InitSeq == Init /\ aws

NextSeq ==
    \/ \E e \in Emails : RegisterScan("p1", e, "secret1", "Ann", TRUE)
    \/ RegisterPut("p1", TRUE)
    \/ \E e \in Emails : Login("p1", e, "secret1", TRUE)
    \/ \E form \in FormsOk : SubmitFeedback("p1", form, TRUE, TRUE, MaxReviewsSeq)
    \/ MsScan("p1", TRUE)
    \/ MsUpdate("p1", TRUE)
    \/ UsScan("p1", TRUE)
    \/ UsUpdate("p1", TRUE)
    \/ Notify("p1", TRUE, TRUE, TRUE)

SpecSeq == InitSeq /\ [][NextSeq]_vars

\* The recommendation engine: both accounts exist, reviews arrive one request
\* at a time with every storage call succeeding, and get_recommendations is
\* called between requests, each of its three scans failing or not.
ScanOutcomes ==
    {<<TRUE, TRUE, TRUE>>, <<FALSE, TRUE, TRUE>>, <<TRUE, FALSE, TRUE>>, <<TRUE, TRUE, FALSE>>}

NewUser(email, name, password) ==
    [email |-> email, name |-> name, password_hash |-> hash_password(password),
     total_reviews |-> 0, avg_rating |-> 0, last_review_date |-> NoDate,
     is_active |-> TRUE]

InitRec ==
    /\ aws = TRUE
    /\ movies = SeedTable(EmptyTable, Len(MOVIES_INITIAL_DATA))
    /\ users = [e \in Emails |-> NewUser(e, "Ann", "secret1")]
    /\ reviews = {}
    /\ clock = 0
    /\ session = [p \in Procs |-> NoUser]
    /\ pc = [p \in Procs |-> "idle"]
    /\ loc = [p \in Procs |-> Idle]
    /\ recs = NoRecs

NextRec ==
    \/ \E e \in Emails : Login("p1", e, "secret1", TRUE)
    \/ \E form \in FormsOk : SubmitFeedback("p1", form, TRUE, TRUE, MaxReviewsRec)
    \/ MsScan("p1", TRUE)
    \/ MsUpdate("p1", TRUE)
    \/ UsScan("p1", TRUE)
    \/ UsUpdate("p1", TRUE)
    \/ Notify("p1", TRUE, TRUE, TRUE)
    \/ \E e \in Emails, limit \in Limits, o \in ScanOutcomes :
           Recommend(e, limit, o[1], o[2], o[3])

SpecRec == InitRec /\ [][NextRec]_vars

\* The aggregator on large review tables: the store holds n reviews of
\* movie_001, the oldest rated rOld and the others rNew, and one review of
\* movie_003; update_movie_stats is then called on a movie.
BulkReviews(n, rOld, rNew) ==
    {[review_id |-> i, user_email |-> "a@x.io", movie_id |-> "movie_001",
      rating |-> IF i = 1 THEN rOld ELSE rNew, feedback |-> MinFeedbackLen,
      created_at |-> i] : i \in 1..n}
    \cup {[review_id |-> n + 1, user_email |-> "b@x.io", movie_id |-> "movie_003",
           rating |-> rOld, feedback |-> MinFeedbackLen, created_at |-> n + 1]}

InitBulk ==
    /\ aws = TRUE
    /\ movies = SeedTable(EmptyTable, Len(MOVIES_INITIAL_DATA))
    /\ users = [e \in Emails |-> NewUser(e, "Ann", "secret1")]
    /\ \E n \in 0..MaxBulk, rOld \in {MinRating, MaxRating}, rNew \in {MinRating, 4, MaxRating} :
           /\ reviews = BulkReviews(n, rOld, rNew)
           /\ clock = n + 1
    /\ session = [p \in Procs |-> NoUser]
    /\ pc = [p \in Procs |-> "idle"]
    /\ loc = [p \in Procs |-> Idle]
    /\ recs = NoRecs

\* update_movie_stats(movie_id), scan and update_item in one step; ret is what
\* it returns.
update_movie_stats(p, movie_id, scanOk, updOk) ==
    /\ pc[p] = "idle"
    /\ LET st == MovieStats(movie_id, scanOk)
       IN  /\ movies' = IF updOk THEN UpdateMovieItem(movies, movie_id, st[1], st[2])
                        ELSE movies
           /\ loc' = [loc EXCEPT ![p] =
                        [Idle EXCEPT !.op = "update_movie_stats", !.movie_id = movie_id,
                                     !.calls = <<IF scanOk THEN "scan_ok" ELSE "scan_failed">>,
                                     !.ms_ok = updOk,
                                     !.ret = IF updOk THEN "success" ELSE "failure"]]
    /\ UNCHANGED <<aws, users, reviews, clock, session, pc, recs>>

NextBulk ==
    \E m \in {"movie_001", "movie_003", "movie_005"}, scanOk \in BOOLEAN, updOk \in BOOLEAN :
        update_movie_stats("p1", m, scanOk, updOk)

SpecBulk == InitBulk /\ [][NextBulk]_vars

\* update_movie_stats(movie_id) called on its own, as two steps: the scan of
\* get_movie_reviews with the average, then safe_dynamodb_update_item. Each
\* client makes the call once; tr and ar keep what the call computed.
StatsScan(p, movie_id, scanOk) ==
    /\ pc[p] = "idle"
    /\ loc[p].op = "none"
    /\ LET st == MovieStats(movie_id, scanOk)
       IN  loc' = [loc EXCEPT ![p] =
                     [Idle EXCEPT !.op = "update_movie_stats", !.movie_id = movie_id,
                                  !.calls = <<IF scanOk THEN "scan_ok" ELSE "scan_failed">>,
                                  !.tr = st[1], !.ar = st[2]]]
    /\ pc' = [pc EXCEPT ![p] = "stats_update"]
    /\ UNCHANGED <<aws, movies, users, reviews, clock, session, recs>>

StatsUpdate(p, updOk) ==
    /\ pc[p] = "stats_update"
    /\ movies' = IF updOk
                 THEN UpdateMovieItem(movies, loc[p].movie_id, loc[p].tr, loc[p].ar)
                 ELSE movies
    /\ loc' = [loc EXCEPT ![p].ms_ok = updOk,
                          ![p].ret = IF updOk THEN "success" ELSE "failure"]
    /\ pc' = [pc EXCEPT ![p] = "idle"]
    /\ UNCHANGED <<aws, users, reviews, clock, session, recs>>

\* Two calls of update_movie_stats on a large review table, one after the
\* other or overlapping, no review written meanwhile.
NextTwice ==
    \E p \in Procs :
        \/ \E m \in {"movie_001", "movie_003"}, ok \in BOOLEAN : StatsScan(p, m, ok)
        \/ \E ok \in BOOLEAN : StatsUpdate(p, ok)

SpecTwice == InitBulk /\ [][NextTwice]_vars

\* Two logged-in clients whose requests overlap: every step of one
\* submit_review may fall between two steps of the other. The review write
\* and the scans succeed; an update_item may fail.
InitRace ==
    /\ aws = TRUE
    /\ movies = SeedTable(EmptyTable, Len(MOVIES_INITIAL_DATA))
    /\ users = [e \in Emails |-> NewUser(e, "Ann", "secret1")]
    /\ reviews = {}
    /\ clock = 0
    /\ session = [p \in Procs |-> IF p = "p1" THEN "a@x.io" ELSE "b@x.io"]
    /\ pc = [p \in Procs |-> "idle"]
    /\ loc = [p \in Procs |-> Idle]
    /\ recs = NoRecs

FormsRace == GoodForms({"movie_001", "movie_003"}, {"2", "5"})

NextRace ==
    \E p \in Procs :
        \/ \E form \in FormsRace : SubmitFeedback(p, form, TRUE, TRUE, MaxReviewsRace)
        \/ MsScan(p, TRUE)
        \/ \E ok \in BOOLEAN : MsUpdate(p, ok)
        \/ UsScan(p, TRUE)
        \/ \E ok \in BOOLEAN : UsUpdate(p, ok)
        \/ Notify(p, TRUE, TRUE, TRUE)

SpecRace == InitRace /\ [][NextRace]_vars

\* The analytics view between requests: reviews arrive one request at a
\* time with every storage call succeeding; the scan behind top_movies may
\* fail (SpecRec covers the failures of the recommendation scans).
NextView ==
    \/ \E e \in Emails : Login("p1", e, "secret1", TRUE)
    \/ \E form \in FormsOk : SubmitFeedback("p1", form, TRUE, TRUE, MaxReviewsView)
    \/ MsScan("p1", TRUE)
    \/ MsUpdate("p1", TRUE)
    \/ UsScan("p1", TRUE)
    \/ UsUpdate("p1", TRUE)
    \/ Notify("p1", TRUE, TRUE, TRUE)
    \/ \E aOk \in BOOLEAN : Analytics("p1", TRUE, TRUE, TRUE, aOk)

SpecView == InitRec /\ [][NextView]_vars

\* Two clients register the same address, each under its own name and
\* password, and their calls of register_user may overlap; the existence scan
\* and the put_item may fail. The first client also logs in and reviews.
NameOf(p) == IF p = "p1" THEN "Ann" ELSE "Bob"
PasswordOf(p) == IF p = "p1" THEN "secret1" ELSE "secret2"

NextReg ==
    \/ \E p \in Procs, ok \in BOOLEAN :
           RegisterScan(p, "A@x.io", PasswordOf(p), NameOf(p), ok)
    \/ \E p \in Procs, ok \in BOOLEAN : RegisterPut(p, ok)
    \/ Login("p1", "A@x.io", PasswordOf("p1"), TRUE)
    \/ \E form \in FormsOk : SubmitFeedback("p1", form, TRUE, TRUE, MaxReviewsReg)
    \/ MsScan("p1", TRUE)
    \/ MsUpdate("p1", TRUE)
    \/ UsScan("p1", TRUE)
    \/ UsUpdate("p1", TRUE)
    \/ Notify("p1", TRUE, TRUE, TRUE)

SpecReg == InitSeq /\ [][NextReg]_vars

\* =================================================================== claims
RECURSIVE SetSum(_)
SetSum(S) ==
    IF S = {} THEN 0
    ELSE LET r == CHOOSE x \in S : TRUE IN r.rating + SetSum(S \ {r})

\* avg (in hundredths) is total / n rounded to two decimal places.
IsMeanRounded(avg, total, n) ==
    /\ 2 * (100 * total - n * avg) <= n
    /\ 2 * (n * avg - 100 * total) <= n

ReviewsOfMovie(m) == {r \in reviews : r.movie_id = m}
ReviewsOfUser(e) == {r \in reviews : r.user_email = e}

\* ----------------------------------------------------------------------- C1
\* C1: for every movie M and every set R of stored reviews of M, of any size,
\* an update_movie_stats(M) whose storage calls all succeed stores
\* total_reviews = |R| and avg_rating = the mean rating of R rounded to two
\* decimals, and 0 and 0.0 when R is empty.
C1_StatsOfAllReviews ==
    \A p \in Procs :
        (/\ loc[p].op = "update_movie_stats"
         /\ loc[p].calls = <<"scan_ok">>
         /\ loc[p].ms_ok)
        => LET m == loc[p].movie_id
               R == ReviewsOfMovie(m)
           IN  /\ movies[m].total_reviews = Cardinality(R)
               /\ R = {} => movies[m].avg_rating = 0
               /\ R # {} => IsMeanRounded(movies[m].avg_rating, SetSum(R), Cardinality(R))

\* The same for a movie with at most DefaultLimit reviews, which is what the
\* code computes: get_movie_reviews hands update_movie_stats the 50 newest.
C1_StatsUpToLimit ==
    \A p \in Procs :
        (/\ loc[p].op = "update_movie_stats"
         /\ loc[p].calls = <<"scan_ok">>
         /\ loc[p].ms_ok
         /\ Cardinality(ReviewsOfMovie(loc[p].movie_id)) <= DefaultLimit)
        => LET m == loc[p].movie_id
               R == ReviewsOfMovie(m)
           IN  /\ movies[m].total_reviews = Cardinality(R)
               /\ R = {} => movies[m].avg_rating = 0
               /\ R # {} => IsMeanRounded(movies[m].avg_rating, SetSum(R), Cardinality(R))

\* update_movie_stats has run, all calls succeeding, on a movie with more
\* than DefaultLimit reviews.
C1_Witness ==
    \E p \in Procs :
        /\ loc[p].op = "update_movie_stats"
        /\ loc[p].calls = <<"scan_ok">>
        /\ loc[p].ms_ok
        /\ Cardinality(ReviewsOfMovie(loc[p].movie_id)) > DefaultLimit

\* ------------------------------------------------ recommendation claims
\* What the claims say of a call get_recommendations(recs.email, recs.limit),
\* stated on the stored tables and not on the engine's own operators.
ReviewedIds(e) == {r.movie_id : r \in ReviewsOfUser(e)}
ActiveIds == {id \in DOMAIN movies : movies[id].active}
UnreviewedActive(e) == ActiveIds \ ReviewedIds(e)
CatalogIndex(id) == CHOOSE i \in 1..Len(SeedIds) : SeedIds[i] = id
ReviewsInGenre(e, g) == {r \in ReviewsOfUser(e) : movies[r.movie_id].genre = g}
FavoriteGenresOf(e) ==
    {g \in {movies[id].genre : id \in DOMAIN movies} :
        /\ ReviewsInGenre(e, g) # {}
        /\ SetSum(ReviewsInGenre(e, g)) >= 4 * Cardinality(ReviewsInGenre(e, g))}
Called == recs.email # NoUser
ScansSucceed == recs.mOk /\ recs.rOk /\ recs.eOk
ResultIds == [i \in 1..Len(recs.result) |-> recs.result[i].movie_id]
ResultIsOfCatalog ==
    \A i \in 1..Len(recs.result) :
        /\ recs.result[i].movie_id \in ActiveIds
        /\ recs.result[i] = movies[recs.result[i].movie_id]
NoReviewedMovie ==
    \A i \in 1..Len(recs.result) : recs.result[i].movie_id \notin ReviewedIds(recs.email)

IsFavMovie(id) == movies[id].genre \in FavoriteGenresOf(recs.email)
FillPolicy ==
    LET e == recs.email
        R == recs.result
        U == UnreviewedActive(e)
    IN  /\ Len(R) = Min(recs.limit, Cardinality(U))
        /\ ResultIsOfCatalog
        /\ \A i \in 1..Len(R) : ResultIds[i] \in U
        /\ \A i, j \in 1..Len(R) : i < j => ResultIds[i] # ResultIds[j]
        \* favorite genres first, and none of them left out before a non-favorite
        /\ \A i, j \in 1..Len(R) :
               (i < j /\ IsFavMovie(ResultIds[j])) => IsFavMovie(ResultIds[i])
        /\ \A id \in U :
               (IsFavMovie(id) /\ \A i \in 1..Len(R) : ResultIds[i] # id)
               => \A i \in 1..Len(R) : IsFavMovie(ResultIds[i])
        \* each part by avg_rating descending, and the best of each part
        /\ \A i, j \in 1..Len(R) :
               (i < j /\ IsFavMovie(ResultIds[i]) = IsFavMovie(ResultIds[j]))
               => R[i].avg_rating >= R[j].avg_rating
        /\ \A id \in U, i \in 1..Len(R) :
               (/\ \A j \in 1..Len(R) : ResultIds[j] # id
                /\ IsFavMovie(id) = IsFavMovie(ResultIds[i]))
               => R[i].avg_rating >= movies[id].avg_rating
SeedScenario ==
    /\ {<<r.movie_id, r.rating>> : r \in ReviewsOfUser(recs.email)}
           = {<<"movie_001", 5>>, <<"movie_003", 2>>}
    /\ recs.limit = 3
SeedScenarioResult ==
    /\ Len(recs.result) = 3
    /\ ResultIds[1] = "movie_005"
    /\ \A i \in 2..3 : ResultIds[i] \notin {"movie_001", "movie_003", "movie_005"}
    /\ \A id \in ActiveIds \ ({"movie_001", "movie_003", "movie_005"}
                              \cup {ResultIds[2], ResultIds[3]}) :
           movies[id].avg_rating <= recs.result[3].avg_rating
    /\ recs.result[2].avg_rating >= recs.result[3].avg_rating

C3_WitnessFill ==
    /\ Called /\ ScansSucceed /\ ReviewsOfUser(recs.email) # {}
    /\ \E i \in 1..Len(recs.result) : ~IsFavMovie(ResultIds[i])
    /\ \E i \in 1..Len(recs.result), id \in UnreviewedActive(recs.email) :
           recs.result[i].avg_rating > movies[id].avg_rating

\* ----------------------------------------------------------------------- C4
Before(a, b) ==
    \/ a.avg_rating > b.avg_rating
    \/ /\ a.avg_rating = b.avg_rating
       /\ CatalogIndex(a.movie_id) < CatalogIndex(b.movie_id)
ColdStartTop ==
    LET R == recs.result
    IN  /\ Len(R) = Min(recs.limit, Cardinality(ActiveIds))
        /\ ResultIsOfCatalog
        /\ \A i, j \in 1..Len(R) : i < j => Before(R[i], R[j])
        /\ \A id \in ActiveIds, i \in 1..Len(R) :
               (\A j \in 1..Len(R) : ResultIds[j] # id) => Before(R[i], movies[id])

PrimaryIds == {recs.primary[i].movie_id : i \in 1..Len(recs.primary)}
FavoriteRule ==
    LET e == recs.email
    IN  /\ recs.favs = FavoriteGenresOf(e)
        /\ \A g \in {movies[id].genre : id \in DOMAIN movies} :
               LET S == ReviewsInGenre(e, g)
               IN  /\ (S # {} /\ SetSum(S) = 4 * Cardinality(S)) => g \in recs.favs
                   /\ (S # {} /\ 2 * SetSum(S) = 7 * Cardinality(S)) => g \notin recs.favs
        /\ PrimaryIds = {id \in UnreviewedActive(e) : movies[id].genre \in FavoriteGenresOf(e)}
        /\ \A i \in 1..Len(recs.primary) :
               recs.primary[i] = movies[recs.primary[i].movie_id]

C5_WitnessBelow ==
    /\ Called /\ ScansSucceed
    /\ \E id \in DOMAIN movies :
           LET S == ReviewsInGenre(recs.email, movies[id].genre)
           IN  S # {} /\ 2 * SetSum(S) = 7 * Cardinality(S)
                      /\ movies[id].genre \notin recs.favs

\* ------------------------------------------------------- submission claims
Returned(p) == loc[p].op = "submit" /\ pc[p] = "idle" /\ loc[p].ret # "none"
IndexOf(calls, name) ==
    IF \E i \in 1..Len(calls) : calls[i] = name
    THEN CHOOSE i \in 1..Len(calls) : calls[i] = name
    ELSE 0
IsStored(review_id) == \E r \in reviews : r.review_id = review_id

\* ----------------------------------------------------------------------- C6
\* C6: whenever submit_review returns success, the review was written to the
\* review store first and update_movie_stats(movie_id) and
\* update_user_stats(email) were both invoked after the write and before the
\* return.
C6_SuccessAfterRecomputes ==
    \A p \in Procs :
        (Returned(p) /\ loc[p].ret = "success")
        => /\ loc[p].put_ok
           /\ IsStored(loc[p].review_id)
           /\ IndexOf(loc[p].calls, "put_item") = 1
           /\ IndexOf(loc[p].calls, "update_movie_stats") > 1
           /\ IndexOf(loc[p].calls, "update_user_stats") > 1

\* submit_review returned success although update_movie_stats had failed.
C6_Witness ==
    \E p \in Procs : Returned(p) /\ loc[p].ret = "success" /\ ~loc[p].ms_ok

\* ----------------------------------------------------------------------- C7
UserRecordIsExact(e) ==
    LET S == ReviewsOfUser(e)
    IN  /\ users[e].total_reviews = Cardinality(S)
        /\ S = {} => users[e].avg_rating = 0 /\ users[e].last_review_date = NoDate
        /\ S # {} =>
               /\ IsMeanRounded(users[e].avg_rating, SetSum(S), Cardinality(S))
               /\ \E r \in S : users[e].last_review_date = r.created_at
               /\ \A r \in S : users[e].last_review_date >= r.created_at

\* C7: after any sequence of non-overlapping submit_review calls whose storage
\* operations all succeed, each user's total_reviews is the number of stored
\* reviews of that user, avg_rating is the mean of their ratings rounded to
\* two decimals, and last_review_date is the greatest created_at among them
\* ('' when the user has none).
C7_UserStats ==
    (\A p \in Procs : pc[p] = "idle") => \A e \in DOMAIN users : UserRecordIsExact(e)

\* A user has three reviews whose mean is not a multiple of 0.01, another user
\* has none, and no call is running.
C7_Witness ==
    /\ \A p \in Procs : pc[p] = "idle"
    /\ \E e \in DOMAIN users :
           /\ Cardinality(ReviewsOfUser(e)) = 3
           /\ (100 * SetSum(ReviewsOfUser(e))) % 3 # 0
    /\ \E e \in DOMAIN users : ReviewsOfUser(e) = {}

\* ----------------------------------------------------------------------- C8
MovieStatsChanged(id) ==
    /\ id \in DOMAIN movies
    /\ \/ id \notin DOMAIN movies'
       \/ movies'[id].total_reviews # movies[id].total_reviews
       \/ movies'[id].avg_rating # movies[id].avg_rating
IsAggregatorWrite(id) ==
    \E p \in Procs : pc[p] = "ms_update" /\ pc'[p] # "ms_update" /\ loc[p].movie_id = id
IsSeeding == \A p \in Procs : pc[p] = "idle" /\ loc'[p] = Idle

\* C8 (as claimed): a movie's stored total_reviews and avg_rating change only
\* in the update of an update_movie_stats run after a review write; every
\* other operation, the startup seeding initialize_movies on a store that
\* already holds movies and reviews included, leaves them unchanged.
C8_OnlyAggregator ==
    [][\A id \in DOMAIN movies : MovieStatsChanged(id) => IsAggregatorWrite(id)]_vars

\* What holds instead: they change in the aggregator's update or at a start
\* of the process, where initialize_movies puts the seed item back.
C8_AggregatorOrSeeding ==
    [][\A id \in DOMAIN movies :
          MovieStatsChanged(id)
          => \/ IsAggregatorWrite(id)
             \/ /\ IsSeeding
                /\ movies'[id].total_reviews = 0
                /\ movies'[id].avg_rating = 0]_vars

\* A movie with a stored review has total_reviews = 0 while no call is
\* running: the state a restart leaves behind.
C8_Witness ==
    /\ \A p \in Procs : pc[p] = "idle" /\ loc[p] = Idle
    /\ \E r \in reviews : movies[r.movie_id].total_reviews = 0

\* ----------------------------------------------------------------------- C9
KnownMovie(id) == IF aws THEN id \in DOMAIN movies ELSE id \in SeqToSet(SeedIds)
IsInvalidSubmission(user, form) ==
    \/ user = NoUser
    \/ form.movie_id = "" \/ form.rating_raw = "" \/ strip_len(form.feedback) = 0
    \/ ~int(form.rating_raw)[1]
    \/ int(form.rating_raw)[2] \notin MinRating..MaxRating
    \/ strip_len(form.feedback) < MinFeedbackLen
    \/ ~KnownMovie(form.movie_id)
IsSubmission(p) == pc[p] = "idle" /\ loc'[p].op = "submit" /\ loc'[p] # loc[p]
StoredReviewsAreValid ==
    \A r \in reviews :
        /\ r.rating \in {1, 2, 3, 4, 5}
        /\ r.feedback >= 10
        /\ r.movie_id \in DOMAIN movies
        /\ r.user_email # NoUser
RejectedBeforeWrite ==
    \A p \in Procs :
        (IsSubmission(p) /\ IsInvalidSubmission(session[p], loc'[p].form))
        => /\ UNCHANGED <<reviews, movies, users>>
           /\ pc'[p] = "idle"
           /\ loc'[p].ret \notin {"none", "success"}
           /\ loc'[p].calls = <<>>

\* C9: a submission through submit_feedback_route with a rating outside 1..5,
\* a non-integer rating, a feedback text shorter than 10 characters, a missing
\* field, an unknown movie_id or no logged-in user is rejected before any
\* write (no review stored, no movie or user record changed); hence every
\* stored review has rating in {1,..,5}, feedback of length >= 10 and the
\* movie_id of an existing movie.
C9_Validation == []StoredReviewsAreValid /\ [][RejectedBeforeWrite]_vars

\* With a review in the store, a submission with rating 6 was turned down.
C9_Witness ==
    /\ reviews # {}
    /\ \E p \in Procs :
           /\ Returned(p)
           /\ loc[p].form.rating_raw = "6"
           /\ loc[p].ret = "Rating must be between 1 and 5!"

\* ---------------------------------------------------------------------- C10
RecomputeFailed(p) == Returned(p) /\ loc[p].put_ok /\ (~loc[p].ms_ok \/ ~loc[p].us_ok)
ReviewKeptStatsStale(p) ==
    /\ IsStored(loc[p].review_id)
    /\ ~loc[p].ms_ok => StatsOfMovie(loc[p].movie_id) = loc[p].pre_m
    /\ ~loc[p].us_ok => StatsOfUser(loc[p].email) = loc[p].pre_u

\* C10 (as claimed): if the review write of submit_review succeeds and
\* update_movie_stats or update_user_stats fails, submit_review still returns
\* success, the review stays stored, and the movie or user record concerned
\* keeps the total_reviews and avg_rating it had before the call.
C10_Swallowed ==
    \A p \in Procs :
        RecomputeFailed(p) => (loc[p].ret = "success" /\ ReviewKeptStatsStale(p))

\* What holds instead: the review stays and the record keeps its values, and
\* the call returns success unless the title lookup made for the notification
\* raised, in which case it returns failure.
C10_SwallowedUnlessLookupRaises ==
    \A p \in Procs :
        RecomputeFailed(p)
        => /\ ReviewKeptStatsStale(p)
           /\ loc[p].ret = IF IndexOf(loc[p].calls, "AttributeError") > 0
                           THEN "failure" ELSE "success"

\* submit_review returned after both recomputes had failed on a movie and a
\* user that had statistics from an earlier review.
C10_Witness ==
    \E p \in Procs :
        /\ RecomputeFailed(p) /\ ~loc[p].ms_ok /\ ~loc[p].us_ok
        /\ loc[p].ret = "success"
        /\ loc[p].pre_m[1] > 0 /\ loc[p].pre_u[1] > 0

\* ---------------------------------------------------------------------- C11
RanClean(p, m) ==
    /\ pc[p] = "idle" /\ loc[p].op = "update_movie_stats" /\ loc[p].movie_id = m
    /\ loc[p].calls = <<"scan_ok">> /\ loc[p].ms_ok
BothRan(m) == \A p \in Procs : RanClean(p, m)
IsCorrectRecompute(m) ==
    LET R == ReviewsOfMovie(m)
    IN  /\ movies[m].total_reviews = Cardinality(R)
        /\ R = {} => movies[m].avg_rating = 0
        /\ R # {} => IsMeanRounded(movies[m].avg_rating, SetSum(R), Cardinality(R))
SameAsSingleRun(m) ==
    \A p \in Procs :
        movies[m].total_reviews = loc[p].tr /\ movies[m].avg_rating = loc[p].ar

\* C11 (as claimed): update_movie_stats(M) run twice with no review written in
\* between, one run after the other or the two overlapping in any interleaving
\* of their scan and update steps (all storage calls succeeding), leaves M
\* with the total_reviews and avg_rating of a single run, and these are the
\* correct recompute of M's stored reviews.
C11_TwiceIsCorrect ==
    \A m \in DOMAIN movies : BothRan(m) => (SameAsSingleRun(m) /\ IsCorrectRecompute(m))

\* What holds instead: both runs computed and stored the same two values, and
\* these are the correct recompute when M has at most DefaultLimit reviews.
C11_TwiceIsSame ==
    \A m \in DOMAIN movies :
        BothRan(m)
        => /\ SameAsSingleRun(m)
           /\ Cardinality(ReviewsOfMovie(m)) <= DefaultLimit => IsCorrectRecompute(m)

\* Both runs on a movie with more than DefaultLimit reviews have returned.
C11_Witness ==
    \E m \in DOMAIN movies : BothRan(m) /\ Cardinality(ReviewsOfMovie(m)) > DefaultLimit

\* ---------------------------------------------------------------------- C12
AppliesMovieWrite(p) ==
    /\ pc[p] = "ms_update" /\ pc'[p] # "ms_update"
    /\ loc'[p].ms_ok
LastWriteWins ==
    /\ \A p \in Procs :
           AppliesMovieWrite(p)
           => /\ movies'[loc[p].movie_id].total_reviews = loc[p].tr
              /\ movies'[loc[p].movie_id].avg_rating = loc[p].ar
    /\ \A id \in DOMAIN movies : MovieStatsChanged(id) => IsAggregatorWrite(id)

\* C12: when two submit_review calls for the same movie overlap, the movie's
\* total_reviews and avg_rating are those of whichever update_movie_stats
\* write is applied last (each applied write replaces them with what that
\* call computed, and nothing else changes them); and an interleaving exists
\* after which both calls have returned success and total_reviews is less
\* than the number of stored reviews of the movie (C12_Witness).
C12_LastWriteWins == [][LastWriteWins]_vars

\* Both calls have returned success with every update applied, and the movie
\* they reviewed has fewer total_reviews than stored reviews.
C12_Witness ==
    /\ \A p \in Procs :
           /\ Returned(p) /\ loc[p].ret = "success"
           /\ loc[p].ms_ok /\ loc[p].us_ok
           /\ loc[p].movie_id = "movie_001"
    /\ movies["movie_001"].total_reviews < Cardinality(ReviewsOfMovie("movie_001"))
    /\ Cardinality(ReviewsOfMovie("movie_001")) = 2

\* ---------------------------------------------------------------------- C13
Viewed == recs.view = "analytics"
StoredScore(id) == movies[id].avg_rating * movies[id].total_reviews
TopIds == [i \in 1..Len(recs.top_movies) |-> recs.top_movies[i].movie_id]
TopMoviesRule ==
    LET T == recs.top_movies
    IN  /\ Len(T) = Min(6, Cardinality(ActiveIds))
        /\ \A i \in 1..Len(T) : TopIds[i] \in ActiveIds /\ T[i] = movies[TopIds[i]]
        /\ \A i, j \in 1..Len(T) : i < j => TopIds[i] # TopIds[j]
        /\ \A i, j \in 1..Len(T) : i < j => StoredScore(TopIds[i]) >= StoredScore(TopIds[j])
        /\ \A id \in ActiveIds, i \in 1..Len(T) :
               (\A j \in 1..Len(T) : TopIds[j] # id)
               => StoredScore(TopIds[i]) >= StoredScore(id)
        /\ \A id \in ActiveIds : movies[id].total_reviews = 0 => StoredScore(id) = 0
        /\ \A i, j \in 1..Len(T) :
               (movies[TopIds[i]].total_reviews = 0 /\ StoredScore(TopIds[j]) > 0) => j < i

Attempted(calls) == IndexOf(calls, "send_sns_notification") > 0
NotifyStep(p) == pc[p] = "notify" /\ pc'[p] = "idle"
NotifyFrame(p) ==
    /\ UNCHANGED <<movies, users, reviews>>
    /\ (Attempted(loc'[p].calls) /\ ~loc'[p].notified) => loc'[p].ret = "success"

\* C14 (as claimed): the notification for a new review is sent only after
\* the review write and the statistics aggregation have succeeded, and a
\* failure of the notification never changes the result of submit_review nor
\* any stored review, movie or user record.
C14_AfterSuccessfulAggregation ==
    [][\A p \in Procs :
          NotifyStep(p)
          => /\ Attempted(loc'[p].calls)
                => (loc[p].put_ok /\ loc[p].ms_ok /\ loc[p].us_ok)
             /\ NotifyFrame(p)]_vars

\* What holds instead: the notification is sent after the review was stored
\* and update_movie_stats and update_user_stats have both returned, whether
\* or not their updates succeeded; a notification that fails leaves the
\* result at success and every stored record as it was.
C14_AfterAggregationReturned ==
    [][\A p \in Procs :
          NotifyStep(p)
          => /\ Attempted(loc'[p].calls)
                => /\ loc[p].put_ok
                   /\ IsStored(loc[p].review_id)
                   /\ loc[p].calls = <<"put_item", "update_movie_stats",
                                       "update_user_stats">>
             /\ NotifyFrame(p)]_vars

\* submit_review sent the notification of a stored review although the
\* update of update_movie_stats had failed.
C14_Witness ==
    \E p \in Procs :
        /\ Returned(p) /\ Attempted(loc[p].calls) /\ loc[p].notified
        /\ loc[p].put_ok /\ ~loc[p].ms_ok
        /\ loc[p].ret = "success"

\* ---------------------------------------------------------------------- C15
PutStep(p) == pc[p] = "idle" /\ pc'[p] = "ms_scan"
AddsOneFresh ==
    /\ Cardinality(reviews') = Cardinality(reviews) + 1
    /\ \A r \in reviews' \ reviews :
           \A old \in reviews : old.review_id # r.review_id

\* C15: the review store is append-only: over any sequence of operations a
\* review once stored is never removed and none of its fields (user_email,
\* movie_id, rating, feedback, created_at) ever changes; each successful
\* submit_review adds exactly one new review with a fresh review_id, also
\* when the same user reviews the same movie again.
C15_AppendOnly ==
    [][/\ reviews \subseteq reviews'
       /\ IF \E p \in Procs : PutStep(p) THEN AddsOneFresh ELSE reviews' = reviews
       /\ \A p \in Procs :
              (Returned(p)' /\ loc'[p].ret = "success")
              => Cardinality({r \in reviews' : r.review_id = loc'[p].review_id}) = 1]_vars

\* submit_review returned success for a user's second review of one movie,
\* and both reviews are stored.
C15_Witness ==
    \E p \in Procs :
        /\ Returned(p) /\ loc[p].ret = "success"
        /\ \E r1, r2 \in reviews :
               /\ r1.review_id # r2.review_id
               /\ r2.review_id = loc[p].review_id
               /\ r1.user_email = r2.user_email /\ r1.movie_id = r2.movie_id
               /\ r1.rating = r2.rating /\ r1.feedback = r2.feedback

\* ---------------------------------------------------------------------- C16
\* A step in which submit_review is entered (the route accepted the form) and
\* stores no review: the reviews table is unavailable or its put_item fails.
WriteFailedStep(p) ==
    /\ pc[p] = "idle" /\ loc'[p].op = "submit"
    /\ loc'[p].ret \in {"failure", "none"}
    /\ ~loc'[p].put_ok

\* C16: if the review write in submit_review fails, or the review table is
\* unavailable, submit_review returns failure and changes nothing: no review
\* is stored, update_movie_stats and update_user_stats are not invoked, no
\* movie or user record changes and no notification is sent.
C16_FailedWriteChangesNothing ==
    [][\A p \in Procs :
          WriteFailedStep(p)
          => /\ loc'[p].ret = "failure" /\ pc'[p] = "idle"
             /\ UNCHANGED <<reviews, movies, users>>
             /\ loc'[p].calls = IF aws THEN <<"put_item">> ELSE <<>>
             /\ ~loc'[p].notified]_vars

\* submit_review returned failure after its put_item failed, on a movie and
\* a user that have statistics from an earlier review.
C16_Witness ==
    \E p \in Procs :
        /\ Returned(p) /\ loc[p].ret = "failure"
        /\ loc[p].calls = <<"put_item">> /\ ~loc[p].put_ok
        /\ loc[p].pre_m[1] > 0 /\ loc[p].pre_u[1] > 0
        /\ StatsOfMovie(loc[p].movie_id) = loc[p].pre_m
        /\ StatsOfUser(loc[p].email) = loc[p].pre_u

\* ---------------------------------------------------------------------- C17
RegisterPutStep(p) == pc[p] = "reg_put" /\ pc'[p] = "idle"
Registered == "Registration successful"

\* C17 (as claimed): register_user never overwrites an existing account: for
\* an email that already has a user record, also when the existence scan
\* fails with a storage error and when two registrations for the same email
\* overlap, the stored name, password_hash, total_reviews and avg_rating of
\* that record are unchanged by the call and the call reports failure.
C17_NeverOverwrites ==
    [][\A p \in Procs :
          (RegisterPutStep(p) /\ loc[p].email \in DOMAIN users)
          => /\ users'[loc[p].email].name = users[loc[p].email].name
             /\ users'[loc[p].email].password_hash = users[loc[p].email].password_hash
             /\ users'[loc[p].email].total_reviews = users[loc[p].email].total_reviews
             /\ users'[loc[p].email].avg_rating = users[loc[p].email].avg_rating
             /\ loc'[p].ret # Registered]_vars

\* What holds instead: a call that reaches its put_item while the email has a
\* record (its scan failed, or the record was put after its scan) replaces
\* the record by the new account and reports success when the put succeeds;
\* it leaves every record alone and reports failure when the put fails.
C17_PutReplaces ==
    [][\A p \in Procs :
          (RegisterPutStep(p) /\ loc[p].email \in DOMAIN users)
          => IF loc'[p].put_ok
             THEN /\ users'[loc[p].email]
                       = NewUser(loc[p].email, loc[p].name, loc[p].password)
                  /\ loc'[p].ret = Registered
             ELSE users' = users /\ loc'[p].ret # Registered]_vars

\* A registration reported success for an address whose account had a stored
\* review: the account is back at total_reviews = 0.
C17_Witness ==
    \E p \in Procs :
        /\ \A q \in Procs : pc[q] = "idle"
        /\ loc[p].op = "register" /\ loc[p].ret = Registered
        /\ users[loc[p].email].total_reviews = 0
        /\ \E r \in reviews : r.user_email = loc[p].email

====
